---- MODULE Spec2Model ----
(***************************************************************************)
(* Block Solver (Puzelki): the board allocation engine (board_state.py,    *)
(* class BoardState) and the bot control loop (bot_logic.py, class         *)
(* BotLogic) as a state machine.                                           *)
(*                                                                         *)
(* config.py is not part of the sources at hand: the board dimensions, the *)
(* per-type limits, the slot catalog and the retry bound are taken from    *)
(* the written specification (4x6 grid, RED limit 2, ORANGE limit 0,       *)
(* limits summing to 7, retry bound 3).                                    *)
(***************************************************************************)
EXTENDS Integers, FiniteSets, Sequences, Bags, TLC

VARIABLES
    board,      \* BotLogic.board : the BoardState object (grid, placed_counts, used_positions)
    state,      \* BotLogic.state : the BotState last given to update_status
    is_running, \* BotLogic.is_running
    is_paused,  \* BotLogic.is_paused
    should_stop,\* BotLogic.should_stop
    stats,      \* BotLogic.stats
    workers,    \* the live threads running _main_loop: a bag of their local states
    fg_pc,      \* position of the foreground context ("idle", or inside pause()'s rescan)
    fg_scanned, \* the local `scanned` of the foreground's _scan_and_update_board
    hist        \* history of the calls SpecBoard makes on the board: the last call
                \* (op) and its argument (arg), the commits per type since the last
                \* reset, and whether a reload happened since the last reset

vars == <<board, state, is_running, is_paused, should_stop, stats, workers, fg_pc,
         fg_scanned, hist>>

-----------------------------------------------------------------------------
(* config.py *)

None == "None"

\* the None returned by get_next_position
NoPosition == [id |-> "None", cells |-> {}]

BOARD_ROWS == 4
BOARD_COLS == 6

BlockTypeSeq == <<"CYAN", "BLUE", "RED", "GREEN", "YELLOW", "ORANGE">>

BlockTypes == {BlockTypeSeq[i] : i \in 1..Len(BlockTypeSeq)}

BLOCK_LIMITS ==
    [T \in BlockTypes |->
        CASE T = "CYAN"   -> 1
          [] T = "BLUE"   -> 1
          [] T = "RED"    -> 2
          [] T = "GREEN"  -> 2
          [] T = "YELLOW" -> 1
          [] T = "ORANGE" -> 0]

\* Ordered candidate slots of every type; cells are <<row, col>>.  The first
\* seven slots tile the board; G3 is a second-choice GREEN slot lying on the
\* cells of B1.
BLOCK_POSITIONS ==
    [T \in BlockTypes |->
        CASE T = "CYAN"   -> << [id |-> "C1", cells |-> {<<0,2>>, <<0,3>>, <<0,4>>, <<0,5>>}] >>
          [] T = "BLUE"   -> << [id |-> "B1", cells |-> {<<1,2>>, <<1,3>>, <<1,4>>}] >>
          [] T = "RED"    -> << [id |-> "R1", cells |-> {<<0,0>>, <<0,1>>, <<1,0>>, <<1,1>>}],
                                [id |-> "R2", cells |-> {<<2,0>>, <<2,1>>, <<3,0>>, <<3,1>>}] >>
          [] T = "GREEN"  -> << [id |-> "G1", cells |-> {<<2,2>>, <<2,3>>, <<2,4>>}],
                                [id |-> "G2", cells |-> {<<3,2>>, <<3,3>>, <<3,4>>}],
                                [id |-> "G3", cells |-> {<<1,2>>, <<1,3>>, <<1,4>>}] >>
          [] T = "YELLOW" -> << [id |-> "Y1", cells |-> {<<1,5>>, <<2,5>>, <<3,5>>}] >>
          [] T = "ORANGE" -> << >>]

MAX_CHEST_RETRIES == 3

-----------------------------------------------------------------------------
(* board_state.py : class BoardState *)

Cells == (0..(BOARD_ROWS - 1)) \X (0..(BOARD_COLS - 1))

EmptyGrid == [c \in Cells |-> None]

ZeroCounts == [T \in BlockTypes |-> 0]

\* BoardState.__init__
BoardState_init ==
    [grid |-> EmptyGrid, placed_counts |-> ZeroCounts, used_positions |-> {}]

\* BoardState.reset : a variant that forgets to clear used_positions
reset_keeps_used(self) ==
    [self EXCEPT !.grid = EmptyGrid, !.placed_counts = ZeroCounts]

\* BoardState.reset
reset(self) ==
    [grid |-> EmptyGrid, placed_counts |-> ZeroCounts, used_positions |-> {}]

\* sizes (update_from_scan): cells covered by one block of each type
sizes ==
    [T \in BlockTypes |->
        CASE T = "CYAN"   -> 4
          [] T = "BLUE"   -> 3
          [] T = "RED"    -> 4
          [] T = "GREEN"  -> 3
          [] T = "YELLOW" -> 3
          [] T = "ORANGE" -> 1]

\* cell_counts[block_type] after the counting loop of update_from_scan
cell_counts(grid, T) == Cardinality({c \in Cells : grid[c] = T})

\* BoardState.update_from_scan : a variant that rounds the block count down
update_from_scan_floor(self, scanned_grid) ==
    [self EXCEPT
        !.grid = scanned_grid,
        !.placed_counts =
            [T \in BlockTypes |-> cell_counts(scanned_grid, T) \div sizes[T]]]

\* BoardState.update_from_scan
update_from_scan(self, scanned_grid) ==
    [self EXCEPT
        !.grid = scanned_grid,
        !.placed_counts =
            [T \in BlockTypes |->
                (cell_counts(scanned_grid, T) + sizes[T] - 1) \div sizes[T]]]

\* BoardState.can_place_block : a variant comparing with <=
can_place_block_le(self, block_type) ==
    LET limit   == IF block_type \in BlockTypes THEN BLOCK_LIMITS[block_type] ELSE 0
        current == IF block_type \in BlockTypes THEN self.placed_counts[block_type] ELSE 0
    IN  current <= limit

\* BoardState.can_place_block
can_place_block(self, block_type) ==
    LET limit   == IF block_type \in BlockTypes THEN BLOCK_LIMITS[block_type] ELSE 0
        current == IF block_type \in BlockTypes THEN self.placed_counts[block_type] ELSE 0
    IN  current < limit

\* the for-loop of get_next_position from index i on
RECURSIVE next_position_from(_, _, _)
next_position_from(self, positions, i) ==
    IF i > Len(positions) THEN NoPosition
    ELSE LET pos == positions[i]
         IN  IF pos.id \in self.used_positions
                 THEN next_position_from(self, positions, i + 1)
             ELSE IF \A c \in pos.cells : self.grid[c] = None
                 THEN pos
             ELSE next_position_from(self, positions, i + 1)

\* the same loop without the check of the cells
RECURSIVE next_unused_from(_, _, _)
next_unused_from(self, positions, i) ==
    IF i > Len(positions) THEN NoPosition
    ELSE IF positions[i].id \in self.used_positions
        THEN next_unused_from(self, positions, i + 1)
    ELSE positions[i]

\* BoardState.get_next_position : a variant that trusts used_positions alone
get_next_position_no_cells(self, block_type) ==
    LET positions == IF block_type \in BlockTypes
                         THEN BLOCK_POSITIONS[block_type] ELSE << >>
    IN  next_unused_from(self, positions, 1)

\* BoardState.get_next_position
get_next_position(self, block_type) ==
    LET positions == IF block_type \in BlockTypes
                         THEN BLOCK_POSITIONS[block_type] ELSE << >>
    IN  next_position_from(self, positions, 1)

\* BoardState.mark_position_used : a variant that forgets the counter
mark_position_used_no_count(self, block_type, position) ==
    [self EXCEPT
        !.grid = [c \in Cells |-> IF c \in position.cells THEN block_type ELSE @[c]],
        !.used_positions = @ \cup {position.id}]

\* BoardState.mark_position_used : a variant that forgets to write the grid
mark_position_used_no_grid(self, block_type, position) ==
    [self EXCEPT
        !.placed_counts[block_type] = @ + 1,
        !.used_positions = @ \cup {position.id}]

\* BoardState.mark_position_used
mark_position_used(self, block_type, position) ==
    [self EXCEPT
        !.grid = [c \in Cells |-> IF c \in position.cells THEN block_type ELSE @[c]],
        !.placed_counts[block_type] = @ + 1,
        !.used_positions = @ \cup {position.id}]

RECURSIVE sum_values(_, _)
sum_values(counts, i) ==
    IF i > Len(BlockTypeSeq) THEN 0
    ELSE counts[BlockTypeSeq[i]] + sum_values(counts, i + 1)

\* BoardState.get_total_placed
get_total_placed(self) == sum_values(self.placed_counts, 1)

\* BoardState.is_complete : a variant with the threshold off by one
is_complete_gt(self) == get_total_placed(self) > 7

\* BoardState.is_complete
is_complete(self) == get_total_placed(self) >= 7

\* BoardState.get_empty_count
get_empty_count(self) == Cardinality({c \in Cells : self.grid[c] = None})

-----------------------------------------------------------------------------
(* Board scans: what BoardScanner.scan_board can hand to update_from_scan *)

MaxScanCells == 5

\* the labels the scanned cells carry (block sizes 3 and 4)
ScanLabels == {"BLUE", "RED"}

\* A raw grid whose first k cells in row-major order carry the label T.
ScanGrid(k, T) ==
    [c \in Cells |-> IF c[1] * BOARD_COLS + c[2] < k THEN T ELSE None]

Scans == {ScanGrid(k, T) : k \in 0..MaxScanCells, T \in ScanLabels}

-----------------------------------------------------------------------------
(* Initial state: BotLogic.__init__ *)

Init ==
    /\ board = BoardState_init
    /\ state = "IDLE"
    /\ is_running = FALSE
    /\ is_paused = FALSE
    /\ should_stop = FALSE
    /\ stats = [boards_completed |-> 0, blocks_placed |-> 0,
                 blocks_discarded |-> 0, current_board_blocks |-> 0]
    /\ workers = EmptyBag
    /\ fg_pc = "idle"
    /\ fg_scanned = EmptyGrid
    /\ hist = [op |-> "init", arg |-> NoPosition, commits |-> ZeroCounts, scanned |-> FALSE]

botVars == <<state, is_running, is_paused, should_stop, stats, workers, fg_pc, fg_scanned>>

-----------------------------------------------------------------------------
(* The allocation engine driven through its interface: any sequence of     *)
(* reset, commit of a slot obtained from get_next_position, and reload.    *)

BoardReset ==
    /\ board' = reset(board)
    /\ hist' = [op |-> "reset",
                arg |-> [consumed |-> Cardinality(board.used_positions),
                         scanned |-> hist.scanned],
                commits |-> ZeroCounts, scanned |-> FALSE]
    /\ UNCHANGED botVars

BoardCommit(T) ==
    LET position == get_next_position(board, T)
    IN  /\ position # NoPosition
        /\ board' = mark_position_used(board, T, position)
        /\ hist' = [hist EXCEPT !.op = "commit", !.arg = position, !.commits[T] = @ + 1]
        /\ UNCHANGED botVars

BoardReload(scanned_grid) ==
    /\ board' = update_from_scan(board, scanned_grid)
    /\ hist' = [hist EXCEPT !.op = "reload",
                            !.arg = [scanned_grid |-> scanned_grid,
                                     used_before |-> board.used_positions],
                            !.scanned = TRUE]
    /\ UNCHANGED botVars

NextBoard ==
    \/ BoardReset
    \/ \E T \in BlockTypes : BoardCommit(T)
    \/ \E scanned_grid \in Scans : BoardReload(scanned_grid)

SpecBoard == Init /\ [][NextBoard]_vars

-----------------------------------------------------------------------------
(* bot_logic.py : class BotLogic *)

MaxThreads   == 2   \* threads running _main_loop at the same time
MaxPlaced    == 2   \* cap of stats.blocks_placed
MaxDiscarded == 2   \* cap of stats.blocks_discarded
MaxBoards    == 1   \* cap of stats.boards_completed

\* the grid on which the slots with the given identifiers are filled
PaintedGrid(ids) ==
    [c \in Cells |->
        IF \E T \in BlockTypes : \E i \in 1..Len(BLOCK_POSITIONS[T]) :
               BLOCK_POSITIONS[T][i].id \in ids /\ c \in BLOCK_POSITIONS[T][i].cells
        THEN CHOOSE T \in BlockTypes : \E i \in 1..Len(BLOCK_POSITIONS[T]) :
               BLOCK_POSITIONS[T][i].id \in ids /\ c \in BLOCK_POSITIONS[T][i].cells
        ELSE None]

\* what scanner.scan_board() returns to the bot: an empty board, or a board
\* with six blocks on it and room for one RED block
BotScans == {EmptyGrid, PaintedGrid({"C1", "B1", "R1", "G1", "G2", "Y1"})}

\* what detector.detect_block_at_position() returns
DetectTypes == {"RED", "ORANGE", None}

\* the local state of a thread entering _main_loop
NewWorker == [pc |-> "init", block_type |-> None, retries |-> 0, position |-> NoPosition]

\* the thread in local state w moves to local state w2
Step(w, w2) == workers' = (workers (-) SetToBag({w})) (+) SetToBag({w2})

Back(w) == [pc |-> "loop", block_type |-> None, retries |-> 0, position |-> NoPosition]

\* _main_loop, lines 274-277: status RUNNING, initial scan of the board
MainLoopInit(w, scanned) ==
    /\ w.pc = "init"
    /\ board' = update_from_scan(board, scanned)
    /\ state' = "RUNNING"
    /\ Step(w, [w EXCEPT !.pc = "loop"])
    /\ UNCHANGED <<is_running, is_paused, should_stop, stats, fg_pc, fg_scanned, hist>>

\* _main_loop, line 279: while self.is_running and not self.should_stop
MainLoopTest(w) ==
    /\ w.pc = "loop"
    /\ Step(w, [w EXCEPT !.pc = IF is_running /\ ~should_stop THEN "wait" ELSE "exit"])
    /\ UNCHANGED <<board, state, is_running, is_paused, should_stop, stats, fg_pc,
                   fg_scanned, hist>>

\* variant of WaitWhilePaused that does not break on should_stop
WaitWhilePaused_ignores_stop(w) ==
    /\ w.pc = "wait"
    /\ ~(is_paused /\ ~should_stop)
    /\ IF is_complete(board)
           THEN /\ Step(w, [w EXCEPT !.pc = "complete"])
                /\ state' = "COMPLETING"
           ELSE /\ Step(w, [w EXCEPT !.pc = "fetch", !.retries = 0])
                /\ state' = "FETCHING"
    /\ UNCHANGED <<board, is_running, is_paused, should_stop, stats, fg_pc, fg_scanned, hist>>

\* _main_loop, lines 281-291: _wait_while_paused polls until the pause ends
\* or a stop is requested; then break on should_stop, else is_complete()
\* decides between _complete_board and _fetch_block
WaitWhilePaused(w) ==
    /\ w.pc = "wait"
    /\ ~(is_paused /\ ~should_stop)
    /\ IF should_stop
           THEN /\ Step(w, [w EXCEPT !.pc = "exit"])
                /\ UNCHANGED state
       ELSE IF is_complete(board)
           THEN /\ Step(w, [w EXCEPT !.pc = "complete"])
                /\ state' = "COMPLETING"
       ELSE /\ Step(w, [w EXCEPT !.pc = "fetch", !.retries = 0])
            /\ state' = "FETCHING"
    /\ UNCHANGED <<board, is_running, is_paused, should_stop, stats, fg_pc, fg_scanned, hist>>

\* _complete_board, lines 258-265: confirm, statistics, board.reset()
CompleteBoard(w) ==
    /\ w.pc = "complete"
    /\ stats' = [stats EXCEPT !.boards_completed = @ + 1, !.current_board_blocks = 0]
    /\ board' = reset(board)
    /\ Step(w, Back(w))
    /\ UNCHANGED <<state, is_running, is_paused, should_stop, fg_pc, fg_scanned, hist>>

\* _fetch_block, lines 166-184: one pass of the retry loop: fetch_new_block,
\* status DETECTING, and what the detector answers
FetchAttempt(w, block_type) ==
    /\ w.pc = "fetch"
    /\ w.retries < MAX_CHEST_RETRIES
    /\ state' = "DETECTING"
    /\ IF block_type # None
           THEN Step(w, [w EXCEPT !.pc = "decide", !.block_type = block_type,
                                  !.retries = 0])
           ELSE Step(w, [w EXCEPT !.retries = @ + 1])
    /\ UNCHANGED <<board, is_running, is_paused, should_stop, stats, fg_pc, fg_scanned, hist>>

\* _fetch_block, lines 186-193: the retries are used up, on_chest_empty is
\* called, None is returned
ChestEmpty(w) ==
    /\ w.pc = "fetch"
    /\ ~(w.retries < MAX_CHEST_RETRIES)
    /\ Step(w, [w EXCEPT !.pc = "empty", !.retries = 0])
    /\ UNCHANGED <<board, state, is_running, is_paused, should_stop, stats, fg_pc,
                   fg_scanned, hist>>

\* variant of PauseOnEmpty that reports the pause without pausing
PauseOnEmpty_not_paused(w) ==
    /\ w.pc = "empty"
    /\ state' = "PAUSED"
    /\ Step(w, Back(w))
    /\ UNCHANGED <<board, is_running, is_paused, should_stop, stats, fg_pc, fg_scanned, hist>>

\* _main_loop, lines 293-298: no block was fetched, the loop pauses itself
PauseOnEmpty(w) ==
    /\ w.pc = "empty"
    /\ is_paused' = TRUE
    /\ state' = "PAUSED"
    /\ Step(w, Back(w))
    /\ UNCHANGED <<board, is_running, should_stop, stats, fg_pc, fg_scanned, hist>>

\* variant of Decide that goes on to place when no free slot was found
Decide_without_slot(w) ==
    /\ w.pc = "decide"
    /\ LET position == get_next_position(board, w.block_type)
       IN  IF /\ w.block_type # "ORANGE"
              /\ can_place_block(board, w.block_type)
               THEN /\ state' = "PLACING"
                    /\ Step(w, [w EXCEPT !.pc = "place", !.position = position])
               ELSE /\ state' = "DISCARDING"
                    /\ Step(w, [w EXCEPT !.pc = "discard"])
    /\ UNCHANGED <<board, is_running, is_paused, should_stop, stats, fg_pc, fg_scanned, hist>>

\* _main_loop, lines 301-311, with _place_block, lines 206-218, and the
\* status update of _discard_block, line 243
Decide(w) ==
    /\ w.pc = "decide"
    /\ LET position == get_next_position(board, w.block_type)
       IN  IF /\ w.block_type # "ORANGE"
              /\ can_place_block(board, w.block_type)
              /\ position # NoPosition
               THEN /\ state' = "PLACING"
                    /\ Step(w, [w EXCEPT !.pc = "place", !.position = position])
               ELSE /\ state' = "DISCARDING"
                    /\ Step(w, [w EXCEPT !.pc = "discard"])
    /\ UNCHANGED <<board, is_running, is_paused, should_stop, stats, fg_pc, fg_scanned, hist>>

\* _place_block, lines 220-234: the click, mark_position_used, statistics
PlaceBlock(w) ==
    /\ w.pc = "place"
    /\ board' = mark_position_used(board, w.block_type, w.position)
    /\ stats' = [stats EXCEPT !.blocks_placed = @ + 1, !.current_board_blocks = @ + 1]
    /\ Step(w, Back(w))
    /\ UNCHANGED <<state, is_running, is_paused, should_stop, fg_pc, fg_scanned, hist>>

\* variant of DiscardBlock that counts the discarded block as placed, too
DiscardBlock_counts_placed(w) ==
    /\ w.pc = "discard"
    /\ stats' = [stats EXCEPT !.blocks_discarded = @ + 1, !.blocks_placed = @ + 1]
    /\ Step(w, Back(w))
    /\ UNCHANGED <<board, state, is_running, is_paused, should_stop, fg_pc, fg_scanned, hist>>

\* _discard_block, lines 245-248: the discard, statistics
DiscardBlock(w) ==
    /\ w.pc = "discard"
    /\ stats' = [stats EXCEPT !.blocks_discarded = @ + 1]
    /\ Step(w, Back(w))
    /\ UNCHANGED <<board, state, is_running, is_paused, should_stop, fg_pc, fg_scanned, hist>>

\* _main_loop, lines 316-317: the loop is left, the thread ends
MainLoopExit(w) ==
    /\ w.pc = "exit"
    /\ state' = "STOPPED"
    /\ is_running' = FALSE
    /\ workers' = workers (-) SetToBag({w})
    /\ UNCHANGED <<board, is_paused, should_stop, stats, fg_pc, fg_scanned, hist>>

\* variant of Start whose initialize resets the board before it looks at
\* the calibration
Start_resets_first(ok) ==
    /\ fg_pc = "idle"
    /\ ~is_running
    /\ board' = reset(board)
    /\ IF ~ok
           THEN /\ state' = "ERROR"
                /\ UNCHANGED <<is_running, is_paused, should_stop, workers>>
           ELSE /\ BagCardinality(workers) < MaxThreads
                /\ state' = "IDLE"
                /\ is_running' = TRUE
                /\ is_paused' = FALSE
                /\ should_stop' = FALSE
                /\ workers' = workers (+) SetToBag({NewWorker})
    /\ UNCHANGED <<stats, fg_pc, fg_scanned, hist>>

\* BotLogic.start, with BotLogic.initialize; ok is what load_calibration()
\* and is_valid() answer
Start(ok) ==
    /\ fg_pc = "idle"
    /\ ~is_running
    /\ IF ~ok
           THEN /\ state' = "ERROR"
                /\ UNCHANGED <<board, is_running, is_paused, should_stop, workers>>
           ELSE /\ BagCardinality(workers) < MaxThreads
                /\ board' = reset(board)
                /\ state' = "IDLE"
                /\ is_running' = TRUE
                /\ is_paused' = FALSE
                /\ should_stop' = FALSE
                /\ workers' = workers (+) SetToBag({NewWorker})
    /\ UNCHANGED <<stats, fg_pc, fg_scanned, hist>>

\* BotLogic.pause, lines 124-132: toggle is_paused; on resume the rescan follows
Pause ==
    /\ fg_pc = "idle"
    /\ is_running
    /\ is_paused' = ~is_paused
    /\ IF is_paused'
           THEN /\ state' = "PAUSED"
                /\ UNCHANGED fg_pc
           ELSE /\ state' = "RUNNING"
                /\ fg_pc' = "rescan"
    /\ UNCHANGED <<board, is_running, should_stop, stats, workers, fg_scanned, hist>>

\* BotLogic.pause, line 134, _scan_and_update_board, line 151, on the
\* caller's thread: scanned = self.scanner.scan_board()
PauseScan(scanned) ==
    /\ fg_pc = "rescan"
    /\ fg_scanned' = scanned
    /\ fg_pc' = "update"
    /\ UNCHANGED <<board, state, is_running, is_paused, should_stop, stats, workers, hist>>

\* BotLogic.pause, line 134, _scan_and_update_board, line 152, on the
\* caller's thread: self.board.update_from_scan(scanned)
PauseRescan ==
    /\ fg_pc = "update"
    /\ board' = update_from_scan(board, fg_scanned)
    /\ fg_pc' = "idle"
    /\ fg_scanned' = EmptyGrid
    /\ UNCHANGED <<state, is_running, is_paused, should_stop, stats, workers, hist>>

\* BotLogic.stop
Stop ==
    /\ fg_pc = "idle"
    /\ should_stop' = TRUE
    /\ is_running' = FALSE
    /\ is_paused' = FALSE
    /\ state' = "STOPPED"
    /\ UNCHANGED <<board, stats, workers, fg_pc, fg_scanned, hist>>

\* number of threads whose position is one of pcs
CountAt(pcs) ==
    LET at == {w \in BagToSet(workers) : w.pc \in pcs}
        RECURSIVE total(_)
        total(S) == IF S = {} THEN 0
                    ELSE LET w == CHOOSE x \in S : TRUE
                         IN  CopiesIn(w, workers) + total(S \ {w})
    IN  total(at)

\* The statistics are capped where an iteration begins, so that an iteration
\* under way is never held up: a new fetch or completion begins only while
\* the counters it may raise stay within their caps.
WithinCaps ==
    IF is_complete(board)
        THEN stats.boards_completed + CountAt({"complete"}) < MaxBoards
        ELSE LET under_way == CountAt({"fetch", "empty", "decide", "place", "discard"})
             IN  /\ stats.blocks_placed + under_way < MaxPlaced
                 /\ stats.blocks_discarded + under_way < MaxDiscarded

Next ==
    \/ \E ok \in BOOLEAN : Start(ok)
    \/ Pause
    \/ \E scanned \in BotScans : PauseScan(scanned)
    \/ PauseRescan
    \/ Stop
    \/ \E w \in BagToSet(workers) : \E scanned \in BotScans : MainLoopInit(w, scanned)
    \/ \E w \in BagToSet(workers) : MainLoopTest(w)
    \/ \E w \in BagToSet(workers) : (should_stop \/ WithinCaps) /\ WaitWhilePaused(w)
    \/ \E w \in BagToSet(workers) : CompleteBoard(w)
    \/ \E w \in BagToSet(workers) : \E block_type \in DetectTypes : FetchAttempt(w, block_type)
    \/ \E w \in BagToSet(workers) : ChestEmpty(w)
    \/ \E w \in BagToSet(workers) : PauseOnEmpty(w)
    \/ \E w \in BagToSet(workers) : Decide(w)
    \/ \E w \in BagToSet(workers) : PlaceBlock(w)
    \/ \E w \in BagToSet(workers) : DiscardBlock(w)
    \/ \E w \in BagToSet(workers) : MainLoopExit(w)

Spec == Init /\ [][Next]_vars

\* the steps of the threads running _main_loop
MainLoop ==
    \E w \in BagToSet(workers) :
        \/ \E scanned \in BotScans : MainLoopInit(w, scanned)
        \/ MainLoopTest(w)
        \/ (should_stop \/ WithinCaps) /\ WaitWhilePaused(w)
        \/ CompleteBoard(w)
        \/ \E block_type \in DetectTypes : FetchAttempt(w, block_type)
        \/ ChestEmpty(w)
        \/ PauseOnEmpty(w)
        \/ Decide(w)
        \/ PlaceBlock(w)
        \/ DiscardBlock(w)
        \/ MainLoopExit(w)

\* The threads started by start() are scheduled: a thread that can take a
\* step of _main_loop is not held back forever (its waits are sleeps of
\* bounded length). Nothing is assumed about the foreground calls.
FairSpec == Spec /\ WF_vars(MainLoop)

-----------------------------------------------------------------------------
(* Properties of the allocation engine (checked under SpecBoard) *)

\* identifiers of the candidate slots of type T
SlotIds(T) == {BLOCK_POSITIONS[T][i].id : i \in 1..Len(BLOCK_POSITIONS[T])}

\* all candidate slots of the catalog
AllSlots == UNION {{BLOCK_POSITIONS[T][i] : i \in 1..Len(BLOCK_POSITIONS[T])} : T \in BlockTypes}

ConsumedOfType(T) == Cardinality(SlotIds(T) \cap board.used_positions)

CountsMatchConsumed ==
    \A T \in BlockTypes : board.placed_counts[T] = ConsumedOfType(T)

ConsumedCellsNonEmpty ==
    \A p \in AllSlots :
        p.id \in board.used_positions => \A c \in p.cells : board.grid[c] # None

TotalCommits ==
    hist.commits["CYAN"] + hist.commits["BLUE"] + hist.commits["RED"]
        + hist.commits["GREEN"] + hist.commits["YELLOW"] + hist.commits["ORANGE"]

\* C1 as stated: after reset and after every commit, also a commit that follows
\* an earlier reload, placed_counts[T] is the number of slots of T in
\* used_positions.
C1_AsStated ==
    hist.op \in {"reset", "commit"} => CountsMatchConsumed

\* C1 amended: as long as no reload happened since construction or the last
\* reset, placed_counts[T] is the number of slots of T in used_positions, for
\* every type T, after reset and after every commit.
C1_CountsMatchConsumedUntilReload ==
    ~hist.scanned => CountsMatchConsumed

C1_Witness ==
    /\ ~hist.scanned
    /\ hist.op = "commit"
    /\ board.placed_counts["RED"] = 2
    /\ board.placed_counts["GREEN"] = 1

\* C2 as stated: in every state reachable by reset, commit and reload, every
\* cell of a slot in used_positions is non-empty, and every commit added one
\* new identifier to used_positions.
C2_AsStated ==
    /\ ConsumedCellsNonEmpty
    /\ Cardinality(board.used_positions) = TotalCommits

\* C2 amended: every commit adds one new identifier to used_positions and
\* leaves every cell of the committed slot non-empty; as long as no reload
\* happened since the last reset, every cell of every slot in used_positions
\* is non-empty.
C2_ConsumedOnceAndOccupied ==
    /\ Cardinality(board.used_positions) = TotalCommits
    /\ hist.op = "commit" =>
           /\ hist.arg.id \in board.used_positions
           /\ \A c \in hist.arg.cells : board.grid[c] # None
    /\ ~hist.scanned => ConsumedCellsNonEmpty

C2_Witness ==
    /\ hist.op = "commit"
    /\ hist.scanned
    /\ Cardinality(board.used_positions) >= 2
    /\ ConsumedCellsNonEmpty

\* slot i of T's list is not consumed and all its cells are empty
SlotFree(T, i) ==
    LET p == BLOCK_POSITIONS[T][i]
    IN  /\ p.id \notin board.used_positions
        /\ \A c \in p.cells : board.grid[c] = None

\* C3: get_next_position(T) is the first slot of T's list that is not consumed
\* and has all cells empty, and is None exactly when T's list holds no such slot.
C3_NextPositionIsFirstFree ==
    \A T \in BlockTypes :
        LET r == get_next_position(board, T)
            n == Len(BLOCK_POSITIONS[T])
        IN  IF \E i \in 1..n : SlotFree(T, i)
                THEN \E i \in 1..n :
                        /\ r = BLOCK_POSITIONS[T][i]
                        /\ SlotFree(T, i)
                        /\ \A j \in 1..(i - 1) : ~SlotFree(T, j)
                ELSE r = NoPosition

\* after a reload, an unconsumed slot with an occupied cell is passed over
C3_Witness ==
    /\ hist.scanned
    /\ "R1" \notin board.used_positions
    /\ \E c \in BLOCK_POSITIONS["RED"][1].cells : board.grid[c] # None
    /\ get_next_position(board, "RED") = BLOCK_POSITIONS["RED"][2]
    /\ get_next_position(board, "CYAN") = NoPosition
    /\ "C1" \notin board.used_positions

\* C4: after N commits of type T on a fresh or reset board (commits only),
\* can_place_block(T) is false iff N >= BLOCK_LIMITS[T]; it is always false for
\* ORANGE, and after two RED commits placed_counts[RED] = 2.
C4_CanPlaceIffBelowLimit ==
    ~hist.scanned =>
        /\ \A T \in BlockTypes :
               (~can_place_block(board, T)) <=> (hist.commits[T] >= BLOCK_LIMITS[T])
        /\ ~can_place_block(board, "ORANGE")
        /\ hist.commits["RED"] = 2 =>
               /\ ~can_place_block(board, "RED")
               /\ board.placed_counts["RED"] = 2

C4_Witness ==
    /\ ~hist.scanned
    /\ hist.commits["RED"] = 2
    /\ hist.commits["GREEN"] = 1
    /\ ~can_place_block(board, "RED")
    /\ can_place_block(board, "GREEN")

\* the least q with q * n >= k
CeilDiv(k, n) == CHOOSE q \in 0..k : q * n >= k /\ (q - 1) * n < k

\* C5: a reload sets the grid to the raw grid and placed_counts[T] to
\* ceil(K_T / sizes[T]), K_T the number of cells of the raw grid labelled T,
\* whatever the board held before, and leaves used_positions unchanged.
C5_ReloadRecountsFromGrid ==
    hist.op = "reload" =>
        /\ board.grid = hist.arg.scanned_grid
        /\ \A T \in BlockTypes :
               board.placed_counts[T] =
                   CeilDiv(Cardinality({c \in Cells : hist.arg.scanned_grid[c] = T}),
                           sizes[T])
        /\ board.used_positions = hist.arg.used_before

\* five BLUE cells reloaded onto a board with consumed slots count as two
C5_Witness ==
    /\ hist.op = "reload"
    /\ board.used_positions # {}
    /\ Cardinality({c \in Cells : board.grid[c] = "BLUE"}) = 5
    /\ board.placed_counts["BLUE"] = 2

TotalPlaced ==
    board.placed_counts["CYAN"] + board.placed_counts["BLUE"] + board.placed_counts["RED"]
        + board.placed_counts["GREEN"] + board.placed_counts["YELLOW"]
        + board.placed_counts["ORANGE"]

\* C6: is_complete() is true exactly when the placed counts sum to 7 or more;
\* on a board that only saw commits it is false after each of the first six
\* commits and true from the seventh.
C6_CompleteAtSeven ==
    /\ is_complete(board) <=> TotalPlaced >= 7
    /\ ~hist.scanned => (is_complete(board) <=> TotalCommits >= 7)

C6_Witness ==
    /\ ~hist.scanned
    /\ hist.op = "commit"
    /\ TotalCommits = 7
    /\ is_complete(board)

\* C7: after reset, whatever commits and reloads came before, the board is
\* that of a fresh BoardState, the queries answer as on a fresh board (24
\* empty cells, not complete), and a second reset changes nothing.
C7_ResetGivesFreshBoard ==
    hist.op = "reset" =>
        /\ board = BoardState_init
        /\ \A T \in BlockTypes :
               /\ can_place_block(board, T) = can_place_block(BoardState_init, T)
               /\ get_next_position(board, T) = get_next_position(BoardState_init, T)
        /\ get_empty_count(board) = 24
        /\ ~is_complete(board)
        /\ reset(board) = board

\* a reset of a board that was reloaded and had consumed slots
C7_Witness ==
    /\ hist.op = "reset"
    /\ hist.arg.scanned
    /\ hist.arg.consumed >= 2

-----------------------------------------------------------------------------
(* Properties of the bot session and its threads (checked under Spec) *)

\* the threads that passed the test of the while loop and are in its body
InLoopBody == {w \in BagToSet(workers) : w.pc \notin {"init", "loop", "exit"}}

\* C8: the flags (is_running, is_paused, should_stop) always denote one of
\* not-running, running, paused, stopping; in particular is_paused is never
\* set while a stop is requested or while the session is not running.
C8_OneModeAtATime ==
    /\ <<is_running, is_paused, should_stop>> \in
           { <<FALSE, FALSE, FALSE>>,   \* not running
             <<TRUE,  FALSE, FALSE>>,   \* running
             <<TRUE,  TRUE,  FALSE>>,   \* paused
             <<FALSE, FALSE, TRUE>> }   \* stopping
    /\ is_paused => (is_running /\ ~should_stop)

\* C9: at most one thread is inside the control loop at any time.
C9_AtMostOneLoop ==
    \A w \in InLoopBody : CopiesIn(w, workers) = 1 /\ InLoopBody = {w}

\* C10: no step of the foreground (start, pause/resume, stop) changes the
\* board while a thread is inside the control loop.
C10_ForegroundNeverWritesBoard ==
    [][(((\E ok \in BOOLEAN : Start(ok)) \/ Pause \/ (\E g \in BotScans : PauseScan(g))
            \/ PauseRescan \/ Stop) /\ InLoopBody # {})
          => board' = board]_vars

\* ---------------------------------------------------------------------
\* Steps of the worker threads, told apart by the positions they join

\* some thread moves from position from to position to
Moves(from, to) ==
    \E w \in BagToSet(workers) : \E w2 \in BagToSet(workers') :
        /\ w.pc = from
        /\ w2.pc = to
        /\ w2 # w
        /\ workers' = (workers (-) SetToBag({w})) (+) SetToBag({w2})

\* a thread begins an iteration of the loop body: it leaves the pause
\* polling for a fetch or a completion
BeginsIteration == Moves("wait", "fetch") \/ Moves("wait", "complete")

\* C11: after a resume, the rescan of the board is finished before a worker
\* goes on: while the foreground is inside the rescan that pause() runs on
\* resume, no worker begins its next iteration.
C11_RescanBeforeNextIteration ==
    [][(fg_pc \in {"rescan", "update"}) => ~BeginsIteration]_vars

\* a thread ends: it leaves _main_loop
LeavesLoop == BagCardinality(workers') < BagCardinality(workers)

\* C12: stop is cooperative and always honoured. While a stop is requested
\* (should_stop, which only a later start() clears) no worker enters the
\* loop body or begins an iteration, so a worker in the pause polling leaves
\* without another fetch, placement, discard or confirmation; a worker that
\* leaves the loop leaves it in state STOPPED with is_running false; and
\* every worker does leave: a requested stop leads to no worker being left,
\* unless a later start() withdraws the request.
C12_StopIsHonoured ==
    /\ [][should_stop => ~(BeginsIteration \/ Moves("loop", "wait"))]_vars
    /\ [][LeavesLoop => (state' = "STOPPED" /\ ~is_running')]_vars
    /\ (should_stop /\ workers # EmptyBag) ~> (~should_stop \/ workers = EmptyBag)

\* a stop was requested while a worker was inside _fetch_block; the worker
\* finished that action (it paused itself on the empty chest) and has left
C12_Witness ==
    /\ should_stop
    /\ is_paused
    /\ workers = EmptyBag
    /\ state = "STOPPED"

TerminalStates == {"STOPPED", "ERROR"}

\* C13: STOPPED and ERROR are terminal: once the state is one of them, no
\* step other than a start() sets a state that is not terminal.
C13_TerminalStatesStay ==
    [][(state \in TerminalStates /\ ~(\E ok \in BOOLEAN : Start(ok)))
          => state' \in TerminalStates]_vars

\* the thread in local state w moves to local state w2
MovesTo(w, w2) ==
    /\ w2 # w
    /\ workers' = (workers (-) SetToBag({w})) (+) SetToBag({w2})

\* C14: an empty chest pauses the loop. A worker inside _fetch_block makes a
\* fetch attempt only while fewer than MAX_CHEST_RETRIES attempts of this
\* cycle have failed, each failed attempt counting once; it gives up (and
\* calls on_chest_empty) exactly when MAX_CHEST_RETRIES attempts have
\* failed; from there its one step sets is_paused and state PAUSED and
\* takes it back to the loop test. None of these steps places, discards or
\* commits: board and statistics stay as they are, and neither should_stop
\* nor is_running is touched.
C14_EmptyChestPausesOnce ==
    [][\A w \in BagToSet(workers) : \A w2 \in BagToSet(workers') :
          (w.pc \in {"fetch", "empty"} /\ MovesTo(w, w2)) =>
              /\ board' = board /\ stats' = stats
              /\ is_running' = is_running /\ should_stop' = should_stop
              /\ w.pc = "fetch" /\ w2.pc = "fetch" =>
                    /\ w.retries < MAX_CHEST_RETRIES
                    /\ w2.retries = w.retries + 1
                    /\ is_paused' = is_paused
              /\ w.pc = "fetch" /\ w2.pc \notin {"fetch", "empty"} =>
                    /\ w.retries < MAX_CHEST_RETRIES
                    /\ w2.pc = "decide" /\ w2.block_type # None
                    /\ is_paused' = is_paused
              /\ w.pc = "fetch" /\ w2.pc = "empty" =>
                    /\ w.retries = MAX_CHEST_RETRIES
                    /\ is_paused' = is_paused /\ state' = state
              /\ w.pc = "empty" =>
                    /\ w2.pc = "loop"
                    /\ is_paused' /\ state' = "PAUSED"]_vars

\* the loop has paused itself: is_paused is set while the foreground is
\* still inside the rescan of a resume, which only the worker can have done
C14_Witness ==
    /\ is_paused
    /\ state = "PAUSED"
    /\ fg_pc = "update"
    /\ is_running
    /\ \E w \in BagToSet(workers) : w.pc = "loop"

\* C15: a block classified as ORANGE is discarded. A worker holding an
\* ORANGE block is never about to place it; its decision leads to the
\* discard and changes neither board nor statistics; its discard raises
\* blocks_discarded by exactly one and leaves the board (grid, placed
\* counts, consumed set) and the other statistics as they are.
C15_OrangeIsDiscarded ==
    /\ [](\A w \in BagToSet(workers) :
            w.block_type = "ORANGE" => w.pc \in {"decide", "discard"})
    /\ [][\A w \in BagToSet(workers) : \A w2 \in BagToSet(workers') :
            (w.block_type = "ORANGE" /\ MovesTo(w, w2)) =>
                /\ board' = board
                /\ w.pc = "decide" =>
                      /\ w2.pc = "discard"
                      /\ stats' = stats
                /\ w.pc = "discard" =>
                      /\ w2.pc = "loop"
                      /\ stats' = [stats EXCEPT !.blocks_discarded = @ + 1]]_vars

\* an ORANGE block has been classified and sent to the discard, after an
\* earlier block was discarded already
C15_Witness ==
    /\ state = "DISCARDING"
    /\ stats.blocks_discarded = 1
    /\ \E w \in BagToSet(workers) : w.pc = "discard" /\ w.block_type = "ORANGE"

\* C16: a commit is only applied to a slot that get_next_position returned
\* and that, at the moment of the commit, is not in the consumed set and has
\* all its cells empty.
C16_CommitOnlyOnFreeSlot ==
    [][\A w \in BagToSet(workers) : \A w2 \in BagToSet(workers') :
          (w.pc = "place" /\ MovesTo(w, w2)) =>
              /\ w.position # NoPosition
              /\ w.position.id \notin board.used_positions
              /\ \A c \in w.position.cells : board.grid[c] = None]_vars

\* C17: a start() without a usable calibration ends in ERROR and does
\* nothing else: no thread is started, is_running stays false, the flags,
\* the board and the statistics are left alone. Nothing retries: a thread
\* only ever appears in a step that has initialized (state IDLE) and set
\* is_running. ERROR is never set by a step of the loop, and a thread
\* heads for the exit only when a stop was requested or is_running is
\* false.
C17_FailedStartOnlySetsError ==
    [][/\ (Start(FALSE) \/ (state' = "ERROR" /\ state # "ERROR")) =>
            /\ state' = "ERROR"
            /\ ~is_running /\ ~is_running'
            /\ workers' = workers
            /\ board' = board /\ stats' = stats
            /\ is_paused' = is_paused /\ should_stop' = should_stop
       /\ BagCardinality(workers') > BagCardinality(workers) =>
            /\ state' = "IDLE" /\ is_running'
            /\ workers' = workers (+) SetToBag({NewWorker})
       /\ \A w \in BagToSet(workers) : \A w2 \in BagToSet(workers') :
            (MovesTo(w, w2) /\ w2.pc = "exit") => (should_stop \/ ~is_running)]_vars

\* a start() has failed after an earlier session: the board still holds
\* what that session left
C17_Witness ==
    /\ state = "ERROR"
    /\ ~is_running
    /\ workers = EmptyBag
    /\ board.used_positions # {}
    /\ stats.blocks_placed > 0

\* a worker that finds the board complete at the top of an iteration goes
\* to the completion, and the completion confirms once: boards_completed
\* is raised by one, current_board_blocks is set to 0, the cumulative
\* statistics stay, the board is reset to the fresh board
CompletionSequence ==
    \A w \in BagToSet(workers) : \A w2 \in BagToSet(workers') :
        MovesTo(w, w2) =>
            /\ (w.pc = "wait" /\ ~should_stop /\ is_complete(board)) =>
                  /\ w2.pc = "complete"
                  /\ board' = board /\ stats' = stats
            /\ w.pc = "complete" =>
                  /\ w2.pc = "loop"
                  /\ stats' = [stats EXCEPT !.boards_completed = @ + 1,
                                            !.current_board_blocks = 0]
                  /\ board' = BoardState_init

\* a worker makes a fetch attempt
FetchIssued ==
    \E w \in BagToSet(workers) : \E w2 \in BagToSet(workers') :
        /\ w.pc = "fetch"
        /\ w2.pc \in {"fetch", "decide"}
        /\ MovesTo(w, w2)

\* C18: a worker that finds is_complete() true at the top of an iteration
\* performs the completion sequence and nothing else, and no fetch is ever
\* issued while the board is complete.
C18_CompletionWithoutFetch ==
    [][CompletionSequence /\ (FetchIssued => ~is_complete(board))]_vars

\* the block of this type cannot be allocated: its quota is used up, or the
\* quota has room but no slot of the type is free
NotAllocatable(block_type) ==
    \/ ~can_place_block(board, block_type)
    \/ get_next_position(board, block_type) = NoPosition

\* C19: a classified block that cannot be allocated is discarded, once. The
\* decision leads to the discard, with no placement and no commit; the
\* discard raises blocks_discarded by one and takes the worker back to the
\* loop test; board and the other statistics stay as they are, and neither
\* step pauses, stops or sets ERROR, PAUSED or STOPPED.
C19_UnallocatableIsDiscarded ==
    [][\A w \in BagToSet(workers) : \A w2 \in BagToSet(workers') :
          MovesTo(w, w2) =>
              /\ (w.pc = "decide" /\ NotAllocatable(w.block_type)) =>
                    /\ w2.pc = "discard"
                    /\ state' = "DISCARDING"
                    /\ board' = board /\ stats' = stats
                    /\ is_paused' = is_paused /\ is_running' = is_running
                    /\ should_stop' = should_stop
              /\ w.pc = "discard" =>
                    /\ w2.pc = "loop"
                    /\ stats' = [stats EXCEPT !.blocks_discarded = @ + 1]
                    /\ board' = board /\ state' = state
                    /\ is_paused' = is_paused /\ is_running' = is_running
                    /\ should_stop' = should_stop]_vars

\* a RED block is on its way to the discard although the RED quota has
\* room: no RED slot is free
C19_Witness ==
    /\ state = "DISCARDING"
    /\ can_place_block(board, "RED")
    /\ get_next_position(board, "RED") = NoPosition
    /\ \E w \in BagToSet(workers) : w.pc = "discard" /\ w.block_type = "RED"

\* ---------------------------------------------------------------------
\* One session with a cooperative supply: calibration is usable, the first
\* scan finds the board empty, nobody calls stop(), every fetch is
\* classified, the rescan of a resume reports exactly the cells of the
\* slots committed so far, and the supply is as helpful as a supply can be:
\* it delivers the first block type that can still be allocated, with a
\* few ORANGE blocks in between.

MaxSupplyDiscarded == 1   \* blocks the supply delivers for the discard
MaxSupplyBoards    == 1   \* boards of the session

\* what the screen shows: the cells of the slots committed since the last
\* reset
CommittedCells == PaintedGrid(board.used_positions)

\* the block of this type can be allocated
Allocatable(block_type) ==
    /\ block_type # "ORANGE"
    /\ can_place_block(board, block_type)
    /\ get_next_position(board, block_type) # NoPosition

\* the supply delivers a block of this type
Delivers(block_type) ==
    \/ block_type = "ORANGE" /\ stats.blocks_discarded < MaxSupplyDiscarded
    \/ /\ Allocatable(block_type)
       /\ \A i, j \in 1..Len(BlockTypeSeq) :
              (BlockTypeSeq[j] = block_type /\ i < j) => ~Allocatable(BlockTypeSeq[i])

SupplyNext ==
    \/ Start(TRUE)
    \/ Pause
    \/ PauseScan(CommittedCells)
    \/ PauseRescan
    \/ \E w \in BagToSet(workers) : MainLoopInit(w, EmptyGrid)
    \/ \E w \in BagToSet(workers) : MainLoopTest(w)
    \/ \E w \in BagToSet(workers) :
           stats.boards_completed < MaxSupplyBoards /\ WaitWhilePaused(w)
    \/ \E w \in BagToSet(workers) : CompleteBoard(w)
    \/ \E w \in BagToSet(workers) : \E block_type \in BlockTypes :
           Delivers(block_type) /\ FetchAttempt(w, block_type)
    \/ \E w \in BagToSet(workers) : Decide(w)
    \/ \E w \in BagToSet(workers) : PlaceBlock(w)
    \/ \E w \in BagToSet(workers) : DiscardBlock(w)

SupplySpec == Init /\ [][SupplyNext]_vars

\* C20: with a cooperative supply the loop never gets stuck discarding
\* every block while the board is incomplete, so that the board goes on to
\* become complete: as long as the board is incomplete, some block type
\* that the supply delivers can still be allocated.
C20_NeverStuckDiscarding ==
    ~is_complete(board) =>
        \E block_type \in BlockTypes : Allocatable(block_type)

\* some worker commits a slot: it leaves _place_block after the click and
\* mark_position_used
Commits ==
    \E w \in BagToSet(workers) : \E w2 \in BagToSet(workers') :
        w.pc = "place" /\ MovesTo(w, w2)

\* blocks_placed is raised by exactly one in every commit, in the step that
\* issues the place action, and changes in no other step
PlacedStatisticFollowsCommit ==
    /\ Commits => stats'.blocks_placed = stats.blocks_placed + 1
    /\ stats'.blocks_placed # stats.blocks_placed => Commits

\* C21: the quota is never exceeded. Every commit of a block of type T
\* happens in a state where placed_counts[T] is below BLOCK_LIMITS[T], and
\* (the scans reporting no more blocks of a type than its quota) after every
\* step placed_counts[T] is at most BLOCK_LIMITS[T] for every type T; the
\* place statistic rises by exactly one per commit, with the place action.
C21_QuotaNeverExceeded ==
    [][/\ \A w \in BagToSet(workers) : \A w2 \in BagToSet(workers') :
              (w.pc = "place" /\ MovesTo(w, w2)) =>
                  board.placed_counts[w.block_type] < BLOCK_LIMITS[w.block_type]
       /\ \A block_type \in BlockTypes :
              board'.placed_counts[block_type] <= BLOCK_LIMITS[block_type]
       /\ PlacedStatisticFollowsCommit]_vars


====
